---- MODULE Spec2Model ----
(***************************************************************************)
(* State-machine model of ara_gnb_monitoring.py: the line pipeline         *)
(* (process_line), the per-UE state table, snapshot emission, the delivery *)
(* buffer with its interval-gated flush (_maybe_post_flush), the retrying  *)
(* HTTP client (_http_post_json) and the reader loop (stream_gnb_log).     *)
(*                                                                         *)
(* Conventions.  Python None is the empty sequence <<>> and a present      *)
(* value v is <<v>>.  Floats read from the log are modelled by the integer *)
(* they denote; drop_rate is an exact fraction <<num, den>> in lowest      *)
(* terms.  Time is counted in ticks of half a second, so the default       *)
(* _SEND_INTERVAL of 1.0 s is 2 ticks and the default _BACKOFF_BASE of     *)
(* 0.5 s is 1 tick.                                                        *)
(***************************************************************************)
EXTENDS Integers, Sequences, FiniteSets, TLC

VARIABLES
    cfg,            \* run configuration set in __main__ (post url, mode, order, follow, csv)
    state,          \* state: Dict[int, UEState]
    counts,         \* _counts
    buffer,         \* _buffer
    last_post_ms,   \* _last_post_ms
    now,            \* the clock read by _now_ms()
    pc,             \* position of the single thread: "read", "loop_flush", "post", "final", "closed", "crashed"
    call,           \* locals of the running _http_post_json / _maybe_post_flush frame (NoCall when none)
    out_json,       \* records written by _write_json_line
    out_csv,        \* rows written by _write_csv_rows
    sinks_open,     \* whether _OUT_FP / _CSV_FP are still open
    last,           \* history: the line just processed and the effects of the last step, in program order
    delivered,      \* history: ids of the snapshots of every successful delivery call, in order
    failed,         \* history: ids of the snapshots of every failed delivery call
    idles           \* history: number of idle polls of the reader

vars == <<cfg, state, counts, buffer, last_post_ms, now, pc, call,
          out_json, out_csv, sinks_open, last, delivered, failed, idles>>

----------------------------------------------------------------------------
(* Bounds of the explored runs: lines read (MaxShortRun where the lines are drawn *)
(* from a large set), the length of identifier texts, the latest clock value, idle *)
(* polls of the reader, the --retries setting, the latest clock value where the    *)
(* back-off is followed to its end, and the values at which the per-call request   *)
(* and slash-toggle counts stop counting                                           *)

MaxLines == 3
MaxShortRun == 2
MaxRntiLen == 2
MaxTime == 3
MaxIdle == 1
MAX_RETRIES == 1
MaxSleepTime == 4
MaxPosts == 8
MaxToggles == 2

(* Program constants; the two durations are the defaults, in ticks *)

SEND_INTERVAL == 2
BACKOFF_BASE == 1
max_redirects == 5
BITRATE_STUB == 4000000

None == <<>>
Some(v) == <<v>>

Max(a, b) == IF a >= b THEN a ELSE b
Min(a, b) == IF a <= b THEN a ELSE b

RECURSIVE Gcd(_, _)
Gcd(a, b) == IF b = 0 THEN a ELSE Gcd(b, a % b)

\* the float n/d, as a fraction in lowest terms (d > 0, n >= 0)
Frac(n, d) == LET g == Gcd(n, d) IN <<n \div g, d \div g>>

----------------------------------------------------------------------------
(* Device identifiers *)

\* a text is the sequence of its characters
DecChars == <<"0", "1", "2", "3", "4", "5", "6", "7", "8", "9">>
HexChars == DecChars \o <<"a", "b", "c", "d", "e", "f">>
UpperHex == <<"A", "B", "C", "D", "E", "F">>

\* str.lower() on the characters a device identifier can hold
lower(s) ==
    [i \in 1..Len(s) |->
        IF \E k \in 1..6 : UpperHex[k] = s[i]
        THEN HexChars[10 + (CHOOSE k \in 1..6 : UpperHex[k] = s[i])]
        ELSE IF s[i] = "X" THEN "x" ELSE s[i]]

\* str.strip()
RECURSIVE strip(_)
strip(s) ==
    IF s # <<>> /\ Head(s) = " " THEN strip(Tail(s))
    ELSE IF s # <<>> /\ s[Len(s)] = " " THEN strip(SubSeq(s, 1, Len(s) - 1))
    ELSE s

\* str.isdigit()
IsDigitText(s) == Len(s) > 0 /\ \A i \in 1..Len(s) : \E k \in 1..10 : DecChars[k] = s[i]

DigitValue(ch) == (CHOOSE k \in 1..16 : HexChars[k] = ch) - 1

\* int(s, base) for a text of digits of that base
RECURSIVE IntBase(_, _)
IntBase(s, base) ==
    IF s = <<>> THEN 0
    ELSE IntBase(SubSeq(s, 1, Len(s) - 1), base) * base + DigitValue(s[Len(s)])

ParseRntiHex(rnti_str) ==
    LET s0 == lower(strip(rnti_str))
        s == IF Len(s0) >= 2 /\ s0[1] = "0" /\ s0[2] = "x" THEN SubSeq(s0, 3, Len(s0)) ELSE s0
    IN  IntBase(s, 16)

\* _parse_rnti, for the texts on which it returns (it raises ValueError when nothing
\* is left after the marker)
parse_rnti(rnti_str) ==
    LET s0 == lower(strip(rnti_str))
        s == IF Len(s0) >= 2 /\ s0[1] = "0" /\ s0[2] = "x" THEN SubSeq(s0, 3, Len(s0)) ELSE s0
    IN  IF IsDigitText(s) THEN IntBase(s, 10) ELSE IntBase(s, 16)

----------------------------------------------------------------------------
(* Per-UE state *)

init_ue(rnti) ==
    [ rnti |-> rnti, pci |-> 0, sync |-> None, phr |-> None, pcmax |-> None,
      rsrp |-> None, ssb_sinr |-> None,
      dl |-> [ cqi |-> None, ri |-> None, mcs |-> None, a |-> 0, errors |-> 0,
               packets_ok |-> 0, packets_nok |-> 0, drop_rate |-> <<0, 1>>,
               total_bytes |-> 0, last_total_bytes |-> None, last_t_ms |-> None,
               bitrate |-> BITRATE_STUB, buffer_status |-> 0 ],
      ul |-> [ ri |-> None, mcs |-> None, snr |-> None, a |-> 0, errors |-> 0,
               packets_ok |-> 0, packets_nok |-> 0, drop_rate |-> <<0, 1>>,
               total_bytes_rx |-> 0, last_total_bytes_rx |-> None, last_t_ms |-> None,
               bitrate |-> 0, bsr |-> 0, timing_advance |-> 0 ] ]

GetUeReset(st, rnti) ==
    [d \in DOMAIN st \cup {rnti} |-> IF d = rnti THEN init_ue(rnti) ELSE st[d]]

\* the table after _get_ue(rnti)
get_ue(st, rnti) == IF rnti \in DOMAIN st THEN st ELSE st @@ (rnti :> init_ue(rnti))

UpdatePktStatsNoClamp(side) ==
    [side EXCEPT !.packets_ok = side.a - side.errors,
                 !.packets_nok = side.errors,
                 !.drop_rate = IF side.a > 0 THEN Frac(side.errors * 100, side.a) ELSE <<0, 1>>]

update_pkt_stats(side) ==
    [side EXCEPT !.packets_ok = Max(0, side.a - side.errors),
                 !.packets_nok = side.errors,
                 !.drop_rate = IF side.a > 0 THEN Frac(side.errors * 100, side.a) ELSE <<0, 1>>]

----------------------------------------------------------------------------
(* Log lines.  A line is given by what process_line sees of it: whether the *)
(* stripped text is empty or starts with "[", which pattern family would    *)
(* match it first, and the pattern's named groups (None for a group that is *)
(* not in the matching pattern or did not take part in the match).          *)

Line(lead, kind, rnti, g) ==
    [ lead |-> lead, kind |-> kind, rnti |-> rnti,
      phr |-> g[1], pcmax |-> g[2], rsrp |-> g[3], sinsb |-> g[4],
      cqi |-> g[1], ri |-> g[2],
      a |-> g[1], errors |-> g[2], mcs |-> g[3], snr |-> g[4],
      bytes |-> g[1] ]

NoGroups == <<None, None, None, None>>

EmitKindsOnlyUl == {"ul_bytes"}
EmitKindsWithDlsch == {"ul_bytes", "lcid", "dlsch"}
EmitKinds == {"ul_bytes", "lcid"}
ClassifiedKinds == {"header", "cqi", "dlsch", "ulsch", "dl_bytes", "ul_bytes", "lcid"}

\* the kind process_line acts on: nothing for a blank or bracketed line
Classified(ln) == ln.lead = "text" /\ ln.kind \in ClassifiedKinds
Emits(ln) == ln.lead = "text" /\ ln.kind \in EmitKinds

ApplyHeaderResetRsrp(ue, ln) ==
    [ue EXCEPT !.phr = ln.phr, !.pcmax = ln.pcmax, !.rsrp = ln.rsrp,
               !.ssb_sinr = IF ln.sinsb # None THEN ln.sinsb ELSE @]

ApplyHeader(ue, ln) ==
    [ue EXCEPT !.phr = IF ln.phr # None THEN ln.phr ELSE @,
               !.pcmax = IF ln.pcmax # None THEN ln.pcmax ELSE @,
               !.rsrp = IF ln.rsrp # None THEN ln.rsrp ELSE @,
               !.ssb_sinr = IF ln.sinsb # None THEN ln.sinsb ELSE @]

ApplyCqi(ue, ln) ==
    [ue EXCEPT !.dl = [@ EXCEPT !.cqi = ln.cqi, !.ri = ln.ri]]

ApplyDlsch(ue, ln) ==
    [ue EXCEPT !.dl = update_pkt_stats(
        [@ EXCEPT !.a = ln.a[1], !.errors = ln.errors[1], !.mcs = ln.mcs])]

ApplyUlsch(ue, ln) ==
    [ue EXCEPT !.ul = update_pkt_stats(
        [@ EXCEPT !.a = ln.a[1], !.errors = ln.errors[1], !.mcs = ln.mcs,
                  !.snr = IF ln.snr # None THEN ln.snr ELSE @])]

ApplyDlBytes(ue, ln, t) ==
    [ue EXCEPT !.dl = [@ EXCEPT !.bitrate = BITRATE_STUB,
                                !.total_bytes = ln.bytes[1],
                                !.last_total_bytes = ln.bytes,
                                !.last_t_ms = Some(t)]]

ApplyUlBytes(ue, ln, t) ==
    [ue EXCEPT !.ul = [@ EXCEPT !.bitrate = BITRATE_STUB,
                                !.total_bytes_rx = ln.bytes[1],
                                !.last_total_bytes_rx = ln.bytes,
                                !.last_t_ms = Some(t)]]

\* the UE record after the field updates of process_line for a classified line
ApplyEvent(ue, ln, t) ==
    CASE ln.kind = "header"   -> ApplyHeader(ue, ln)
      [] ln.kind = "cqi"      -> ApplyCqi(ue, ln)
      [] ln.kind = "dlsch"    -> ApplyDlsch(ue, ln)
      [] ln.kind = "ulsch"    -> ApplyUlsch(ue, ln)
      [] ln.kind = "dl_bytes" -> ApplyDlBytes(ue, ln, t)
      [] ln.kind = "ul_bytes" -> ApplyUlBytes(ue, ln, t)
      [] OTHER                -> ue

\* the table after process_line(ln) at time t
StateAfter(st, ln, t) ==
    IF Classified(ln)
    THEN LET r == parse_rnti(ln.rnti)
             s == get_ue(st, r)
         IN  [s EXCEPT ![r] = ApplyEvent(s[r], ln, t)]
    ELSE st

\* _counts after process_line(ln), before any flush bookkeeping
CountsAfter(c, ln) ==
    LET c1 == [c EXCEPT !.lines = @ + 1]
        c2 == IF Classified(ln) THEN [c1 EXCEPT ![ln.kind] = @ + 1] ELSE c1
    IN  IF Emits(ln) THEN [c2 EXCEPT !.snapshots = @ + 1] ELSE c2

----------------------------------------------------------------------------
(* Snapshots *)

OrZero(opt) == IF opt = None THEN 0 ELSE opt[1]

\* the payload built by _emit_snapshot; id is a history label (the value of
\* _counts["snapshots"] after this emission), not part of the JSON
Snapshot(ue, t, id) ==
    [ id |-> id, timestamp |-> t, source |-> "OAI",
      ues |-> << [ pci |-> ue.pci, rnti |-> ue.rnti,
                   downlink |-> [ cqi |-> OrZero(ue.dl.cqi), ri |-> OrZero(ue.dl.ri),
                                  mcs |-> OrZero(ue.dl.mcs), bitrate |-> ue.dl.bitrate,
                                  packets_ok |-> ue.dl.packets_ok,
                                  packets_nok |-> ue.dl.packets_nok,
                                  drop_rate |-> ue.dl.drop_rate,
                                  buffer_status |-> ue.dl.buffer_status ],
                   uplink |-> [ pusch_sinr |-> OrZero(ue.ul.snr), rsrp |-> OrZero(ue.rsrp),
                                ri |-> OrZero(ue.ul.ri), mcs |-> OrZero(ue.ul.mcs),
                                bitrate |-> ue.ul.bitrate,
                                packets_ok |-> ue.ul.packets_ok,
                                packets_nok |-> ue.ul.packets_nok,
                                drop_rate |-> ue.ul.drop_rate,
                                bsr |-> ue.ul.bsr,
                                timing_advance |-> ue.ul.timing_advance,
                                phr |-> OrZero(ue.phr) ] ] >> ]

\* one row of _write_csv_rows
CsvRow(snap, ue) ==
    [ timestamp |-> snap.timestamp, source |-> snap.source, pci |-> ue.pci, rnti |-> ue.rnti,
      dl_cqi |-> ue.downlink.cqi, dl_ri |-> ue.downlink.ri, dl_mcs |-> ue.downlink.mcs,
      dl_bitrate |-> ue.downlink.bitrate, dl_packets_ok |-> ue.downlink.packets_ok,
      dl_packets_nok |-> ue.downlink.packets_nok, dl_drop_rate |-> ue.downlink.drop_rate,
      dl_buffer_status |-> ue.downlink.buffer_status,
      ul_pusch_sinr |-> ue.uplink.pusch_sinr, ul_rsrp |-> ue.uplink.rsrp,
      ul_ri |-> ue.uplink.ri, ul_mcs |-> ue.uplink.mcs, ul_bitrate |-> ue.uplink.bitrate,
      ul_packets_ok |-> ue.uplink.packets_ok, ul_packets_nok |-> ue.uplink.packets_nok,
      ul_drop_rate |-> ue.uplink.drop_rate, ul_bsr |-> ue.uplink.bsr,
      ul_timing_advance |-> ue.uplink.timing_advance, ul_phr |-> ue.uplink.phr ]

CsvRows(snap) == [i \in 1..Len(snap.ues) |-> CsvRow(snap, snap.ues[i])]

Ids(buf) == [i \in 1..Len(buf) |-> buf[i].id]

----------------------------------------------------------------------------
(* Delivery buffer and flush *)

OneAtATime == cfg.one_at_a_time
Latest == cfg.one_at_a_time /\ cfg.send_order = "latest"
Fifo == cfg.one_at_a_time /\ cfg.send_order = "fifo"
Batch == ~cfg.one_at_a_time
Posting == cfg.post_url # None

EnqueueAppendAlways(buf, snap) == Append(buf, snap)

\* _buffer after the enqueue at the end of _emit_snapshot
Enqueue(buf, snap) ==
    IF ~Posting THEN buf
    ELSE IF Latest THEN <<snap>>
    ELSE Append(buf, snap)

DueStrict(force, t) ==
    force \/ last_post_ms = 0 \/ (t - last_post_ms) > SEND_INTERVAL

DueUnforced(force, t) ==
    last_post_ms = 0 \/ (t - last_post_ms) >= SEND_INTERVAL

\* the value of `due` in _maybe_post_flush
Due(force, t) ==
    force \/ last_post_ms = 0 \/ (t - last_post_ms) >= SEND_INTERVAL

\* whether _maybe_post_flush(force) on buffer buf gets past its three early returns
Fires(buf, force) == Posting /\ buf # <<>> /\ Due(force, now)

\* the snapshots handed to _http_post_json, in payload order
Popped(buf) ==
    IF Batch THEN buf
    ELSE IF Fifo THEN <<Head(buf)>>
    ELSE <<buf[Len(buf)]>>

BufferDuringCallKeep(buf) == buf

\* _buffer while the request is under way
BufferDuringCall(buf) ==
    IF Batch THEN buf
    ELSE IF Fifo THEN Tail(buf)
    ELSE <<>>

\* the frame of a delivery call: the locals of _maybe_post_flush and _http_post_json,
\* where the thread goes afterwards, and the history of the call (the buffer the flush
\* saw, POST requests issued so far, GET requests issued by urlopen's own redirect
\* handling, slash toggles, and each sleep with the error and status code that led to it)
NewCall(buf, after) ==
    [ payload |-> Popped(buf), as_array |-> Batch, now_ms |-> now,
      attempt |-> 0, delay |-> BACKOFF_BASE, redirects |-> 0,
      current_url |-> cfg.post_url[1], after |-> after, before |-> Ids(buf),
      posts |-> 0, gets |-> 0, toggles |-> 0, slept |-> <<>> ]

\* one call of _maybe_post_flush up to the point where it blocks in _http_post_json
\* (or returns without posting); `after` is where the thread goes when it is back
maybe_post_flush(buf, force, after) ==
    IF Fires(buf, force)
    THEN /\ buffer' = BufferDuringCall(buf)
         /\ call' = Some(NewCall(buf, after))
         /\ pc' = "post"
         /\ sinks_open' = sinks_open
    ELSE /\ buffer' = buf
         /\ call' = None
         /\ pc' = IF after = "close" THEN "closed" ELSE after
         /\ sinks_open' = IF after = "close" THEN FALSE ELSE sinks_open

\* what the flush check saw, for the history variable
Seen(buf, force) == Some([buf |-> Ids(buf), force |-> force])

BufferAfterFailRequeueAll(buf, c) ==
    IF Batch THEN buf ELSE c.payload \o buf

BufferAfterFailDropAll(buf, c) == IF Batch THEN buf ELSE <<>>

BufferAfterFailAppend(buf, c) == IF Fifo THEN buf \o c.payload ELSE buf

BufferAfterFailClear(buf, c) == IF Fifo THEN c.payload \o buf ELSE <<>>

\* _buffer after a failed attempt
BufferAfterFail(buf, c) ==
    IF Fifo THEN c.payload \o buf ELSE buf

BufferAfterOkKeep(buf, c) == buf

\* _buffer after a successful attempt
BufferAfterOk(buf, c) == IF Batch THEN <<>> ELSE buf

CountsAfterPost(c, ok) ==
    IF ok
    THEN [counts EXCEPT !.posted_batches = @ + 1,
                        !.posted_snapshots = @ + Len(c.payload)]
    ELSE [counts EXCEPT !.post_errors = @ + 1]

\* _http_post_json returns ok; the rest of _maybe_post_flush runs and the thread
\* goes on to c.after (for the final flush: the sinks are closed)
Return(c, ok, why) ==
    /\ counts' = CountsAfterPost(c, ok)
    /\ buffer' = IF ok THEN BufferAfterOk(buffer, c) ELSE BufferAfterFail(buffer, c)
    /\ last_post_ms' = IF ok THEN c.now_ms ELSE last_post_ms
    /\ delivered' = IF ok THEN delivered \o Ids(c.payload) ELSE delivered
    /\ failed' = IF ok THEN failed ELSE failed \cup {c.payload[i].id : i \in 1..Len(c.payload)}
    /\ last' = [ step |-> "http", line |-> None, fx |-> <<>>, chk |-> None,
                 ret |-> Some([ ids |-> Ids(c.payload), as_array |-> c.as_array, ok |-> ok,
                                why |-> why, forced |-> c.after = "close",
                                before |-> c.before, now_ms |-> c.now_ms,
                                sent_before |-> last_post_ms,
                                counts_before |-> counts,
                                posts |-> c.posts, gets |-> c.gets, toggles |-> c.toggles,
                                slept |-> c.slept, redirects |-> c.redirects,
                                url |-> c.current_url ]) ]
    /\ call' = None
    /\ pc' = IF c.after = "close" THEN "closed" ELSE c.after
    /\ sinks_open' = IF c.after = "close" THEN FALSE ELSE sinks_open
    /\ now' = now

\* the loop of _http_post_json goes round again, after sleeping `sleep` ticks
Continue(c2, sleep) ==
    /\ call' = Some(c2)
    /\ now' = now + sleep
    /\ last' = [step |-> "http", line |-> None, fx |-> <<>>, chk |-> None, ret |-> None]
    /\ UNCHANGED <<counts, buffer, last_post_ms, delivered, failed, pc, sinks_open>>

----------------------------------------------------------------------------
(* HTTP: what urlopen does with one request *)

REDIRECTS == {301, 302, 303, 307, 308}
TRANSIENT == {429, 500, 502, 503, 504}

PostUrl == [path |-> "ingest", slash |-> FALSE]
OtherUrl == [path |-> "moved", slash |-> TRUE]

\* what one urlopen() of a POST request can come to.  urlopen raises HTTPError for a
\* 307/308 answer to a POST and for a redirect without Location; a 301/302/303 answer
\* with Location it follows itself, with a GET request without body, and hands back
\* what the GET came to ("followed")
Reactions ==
    { [k |-> "resp", code |-> 200, loc |-> None],
      [k |-> "resp", code |-> 100, loc |-> None],
      [k |-> "followed", code |-> 200, loc |-> Some(OtherUrl)],
      [k |-> "httperror", code |-> 307, loc |-> Some(OtherUrl)],
      [k |-> "httperror", code |-> 301, loc |-> None],
      [k |-> "httperror", code |-> 405, loc |-> None],
      [k |-> "httperror", code |-> 503, loc |-> None],
      [k |-> "httperror", code |-> 404, loc |-> None],
      [k |-> "urlerror", code |-> 0, loc |-> None],
      [k |-> "exception", code |-> 0, loc |-> None] }

ToggleSlash(u) == [u EXCEPT !.slash = ~@]

\* the bottom of an except branch: count the attempt, give up or back off
RetryOrFailSameDelay(c, r, retryable, why, horizon) ==
    IF ~retryable \/ c.attempt + 1 > cfg.retries
    THEN Return(c, FALSE, why)
    ELSE /\ now + c.delay <= horizon
         /\ Continue([c EXCEPT !.attempt = @ + 1,
                               !.slept = Append(@, [k |-> r.k, code |-> r.code, delay |-> c.delay])],
                     c.delay)

RetryOrFailOnceMore(c, r, retryable, why, horizon) ==
    IF ~retryable \/ c.attempt > cfg.retries
    THEN Return(c, FALSE, why)
    ELSE /\ now + c.delay <= horizon
         /\ Continue([c EXCEPT !.attempt = @ + 1, !.delay = @ * 2,
                               !.slept = Append(@, [k |-> r.k, code |-> r.code, delay |-> c.delay])],
                     c.delay)

\* (the sleep is explored while the clock stays within the horizon)
RetryOrFail(c, r, retryable, why, horizon) ==
    IF ~retryable \/ c.attempt + 1 > cfg.retries
    THEN Return(c, FALSE, why)
    ELSE /\ now + c.delay <= horizon
         /\ Continue([c EXCEPT !.attempt = @ + 1, !.delay = @ * 2,
                               !.slept = Append(@, [k |-> r.k, code |-> r.code, delay |-> c.delay])],
                     c.delay)

\* one round of the while loop of _http_post_json: the request is sent (c0 is the
\* frame before it) and the endpoint reacts with r
http_post_json(c0, r, horizon) ==
    LET c == [c0 EXCEPT !.posts = Min(@ + 1, MaxPosts)] IN
    CASE r.k = "resp" ->
            IF 200 <= r.code /\ r.code < 300
            THEN Return(c, TRUE, "2xx")
            ELSE Return(c, FALSE, "non_2xx")
      [] r.k = "followed" ->
            IF 200 <= r.code /\ r.code < 300
            THEN Return([c EXCEPT !.gets = @ + 1], TRUE, "2xx")
            ELSE Return([c EXCEPT !.gets = @ + 1], FALSE, "non_2xx")
      [] r.k = "httperror" /\ r.code \in REDIRECTS ->
            IF r.loc = None
            THEN Return(c, FALSE, "redirect_no_location")
            ELSE IF c.redirects + 1 > max_redirects
            THEN Return([c EXCEPT !.redirects = @ + 1], FALSE, "too_many_redirects")
            ELSE Continue([c EXCEPT !.redirects = @ + 1, !.current_url = r.loc[1]], 0)
      [] r.k = "httperror" /\ r.code = 405 /\ ToggleSlash(c.current_url) # c.current_url ->
            Continue([c EXCEPT !.current_url = ToggleSlash(@),
                               !.toggles = Min(@ + 1, MaxToggles)], 0)
      [] r.k = "httperror" /\ r.code \notin REDIRECTS
                           /\ ~(r.code = 405 /\ ToggleSlash(c.current_url) # c.current_url) ->
            RetryOrFail(c, r, r.code \in TRANSIENT,
                        IF r.code \in TRANSIENT THEN "transient_exhausted" ELSE "non_transient",
                        horizon)
      [] r.k = "urlerror" -> RetryOrFail(c, r, TRUE, "urlerror_exhausted", horizon)
      [] r.k = "exception" -> RetryOrFail(c, r, TRUE, "exception_exhausted", horizon)

PermanentWhy == {"non_2xx", "redirect_no_location", "too_many_redirects", "non_transient"}

----------------------------------------------------------------------------
(* Inputs *)

Rnti64 == <<"6", "4">>
RntiAb == <<"a", "b">>

\* one line of every shape process_line tells apart
Lines ==
    { Line("blank", "unmatched", <<>>, NoGroups),
      Line("bracket", "ul_bytes", Rnti64, <<Some(2048), None, None, None>>),
      Line("text", "unmatched", <<>>, NoGroups),
      Line("text", "header", Rnti64, <<Some(10), Some(23), Some(-80), None>>),
      Line("text", "cqi", Rnti64, <<Some(10), Some(2), None, None>>),
      Line("text", "dlsch", Rnti64, <<Some(100), Some(5), Some(10), None>>),
      Line("text", "ulsch", Rnti64, <<Some(50), Some(1), Some(9), None>>),
      Line("text", "dl_bytes", Rnti64, <<Some(4096), None, None, None>>),
      Line("text", "ul_bytes", Rnti64, <<Some(2048), None, None, None>>),
      Line("text", "lcid", RntiAb, NoGroups) }

Configs ==
    [ post_url : {None, Some(PostUrl)}, one_at_a_time : BOOLEAN,
      send_order : {"latest", "fifo"}, follow : BOOLEAN, csv : BOOLEAN,
      retries : {MAX_RETRIES} ]

ZeroCounts ==
    [ lines |-> 0, header |-> 0, cqi |-> 0, dlsch |-> 0, ulsch |-> 0, dl_bytes |-> 0,
      ul_bytes |-> 0, lcid |-> 0, snapshots |-> 0, posted_batches |-> 0,
      posted_snapshots |-> 0, post_errors |-> 0 ]

Step(name, line, fx, chk) ==
    [step |-> name, line |-> line, fx |-> fx, chk |-> chk, ret |-> None]

InitFrom(cs, first) ==
    /\ cfg \in cs
    /\ state = <<>>
    /\ counts = ZeroCounts
    /\ buffer = <<>>
    /\ last_post_ms = 0
    /\ now = 1
    /\ pc = "read"
    /\ call = None
    /\ out_json = <<>>
    /\ out_csv = <<>>
    /\ sinks_open = TRUE
    /\ last = first
    /\ delivered = <<>>
    /\ failed = {}
    /\ idles = 0

InitWith(cs) == InitFrom(cs, Step("init", None, <<>>, None))

\* delivery switched on, in each of its three modes (the send order is not read in
\* batch mode), following the log or reading it once
DeliveryConfigs ==
    { c \in Configs : /\ c.post_url # None
                      /\ ~c.csv
                      /\ (~c.one_at_a_time => c.send_order = "latest") }

\* the lines the delivery buffer can tell apart: no flush inside process_line, a flush
\* without an emission, an emission followed by a flush
DeliveryLines ==
    { Line("text", "unmatched", <<>>, NoGroups),
      Line("text", "cqi", Rnti64, <<Some(10), Some(2), None, None>>),
      Line("text", "ul_bytes", Rnti64, <<Some(2048), None, None, None>>) }

\* one endpoint reaction for each way a call of _http_post_json can end or back off
DeliveryReactions ==
    { r \in Reactions : \/ (r.k = "resp" /\ r.code = 200)
                        \/ (r.k = "httperror" /\ r.code \in {404, 503})
                        \/ (r.code = 301 /\ r.loc = None) }

\* every reaction that cannot make a call go round for ever
HttpReactions == { r \in Reactions : r.code # 405 }

\* the endpoint is up or overloaded
BackoffReactions ==
    { r \in Reactions : (r.k = "resp" /\ r.code = 200) \/ (r.k = "httperror" /\ r.code = 503) }

\* delivery switched on with --retries 2 or 3
BackoffConfigs == { [c EXCEPT !.retries = n] : c \in DeliveryConfigs, n \in {2, 3} }

\* the endpoint refuses the method, accepts, or does not know the path
Reactions405 ==
    { r \in Reactions : (r.k = "resp" /\ r.code = 200) \/ (r.k = "httperror" /\ r.code \in {404, 405}) }

\* the endpoint is up, overloaded or unreachable, has moved, or refuses the method
RetryReactions ==
    { r \in Reactions : \/ (r.k = "resp" /\ r.code = 200)
                        \/ (r.k = "httperror" /\ r.code \in {307, 405, 503})
                        \/ r.k = "urlerror" }

\* the two modes that queue: --send-order fifo and --batch
QueueConfigs == { c \in DeliveryConfigs : ~(c.one_at_a_time /\ c.send_order = "latest") }

\* the default delivery mode, with --retries 1 or 2
RetryConfigs ==
    { [c EXCEPT !.retries = n] :
        c \in { d \in DeliveryConfigs : d.one_at_a_time /\ d.send_order = "latest" },
        n \in {MAX_RETRIES, MAX_RETRIES + 1} }

EmittingLines == { ln \in DeliveryLines : ln.kind = "ul_bytes" }

\* success and an immediate failure
PlainReactions == { r \in Reactions : r.k = "httperror" /\ r.code = 404 }
                  \cup { r \in Reactions : r.k = "resp" /\ r.code = 200 }

LinesConfigs ==
    { c \in Configs : c.one_at_a_time /\ c.send_order = "fifo" }

DevConfigs ==
    { c \in Configs : /\ c.post_url = None /\ ~c.csv /\ ~c.follow
                      /\ c.one_at_a_time /\ c.send_order = "latest" }

Triples == { <<100, 5, 10>>, <<0, 2, 9>>, <<3, 7, 9>> }

\* lines for two devices with varied captures.  A header line is always matched by
\* P_HEADER_SIMPLE (it matches whatever P_HEADER_OLD matches and is tried first), so
\* its sinsb group is never there; an ulsch line matched by P_ULSCH_OLD may carry SNR
DevLinesFor(rnti) ==
    { Line("text", "header", rnti, <<Some(10), Some(23), r, None>>) : r \in {None, Some(-80)} }
    \cup { Line("text", "cqi", rnti, <<Some(q[1]), Some(q[2]), None, None>>) :
             q \in { <<10, 2>>, <<7, 1>> } }
    \cup { Line("text", "dlsch", rnti, <<Some(t[1]), Some(t[2]), Some(t[3]), None>>) :
             t \in Triples }
    \cup { Line("text", "ulsch", rnti, <<Some(t[1]), Some(t[2]), Some(t[3]), None>>) :
             t \in Triples }
    \cup { Line("text", "ulsch", rnti, <<Some(50), Some(1), Some(9), Some(12)>>),
           Line("text", "dl_bytes", rnti, <<Some(4096), None, None, None>>),
           Line("text", "ul_bytes", rnti, <<Some(2048), None, None, None>>),
           Line("text", "lcid", rnti, NoGroups) }

DevLines ==
    DevLinesFor(Rnti64) \cup DevLinesFor(RntiAb)
    \cup { Line("blank", "unmatched", <<>>, NoGroups),
           Line("bracket", "dlsch", Rnti64, <<Some(100), Some(5), Some(10), None>>),
           Line("text", "unmatched", <<>>, NoGroups) }

\* the four lines 'UE RNTI 64 ... PH 10 dB PCMAX 23 dBm, average RSRP -80',
\* 'UE 64: CQI 10, RI 2, PMI ...', 'UE 64: dlsch_rounds 100/0/0/0, dlsch_errors 5, ...
\* MCS 10' and 'UE 64: ulsch_total_bytes_received 2048'
Scenario ==
    << Line("text", "header", Rnti64, <<Some(10), Some(23), Some(-80), None>>),
       Line("text", "cqi", Rnti64, <<Some(10), Some(2), None, None>>),
       Line("text", "dlsch", Rnti64, <<Some(100), Some(5), Some(10), None>>),
       Line("text", "ul_bytes", Rnti64, <<Some(2048), None, None, None>>) >>

\* identifier texts: a few decimal digits and letters of either case, with and without
\* the marker
RntiChars == {"0", "4", "6", "9", "a", "f", "B", "F"}
RntiBodies == UNION { [1..n -> RntiChars] : n \in 1..MaxRntiLen }
Markers == { <<>>, <<"0", "x">>, <<"0", "X">> }
RntiTexts == { m \o b : m \in Markers, b \in RntiBodies }

Init == InitWith(DeliveryConfigs)

----------------------------------------------------------------------------
(* Steps of the reader thread *)

FlushInLineClassifiedOnly(ln) == Classified(ln)

\* process_line calls _maybe_post_flush itself for every line but a blank or unmatched one
FlushInLine(ln) == ln.lead = "bracket" \/ Classified(ln)

\* the writes of _emit_snapshot, in program order
EmitFx(ln) ==
    IF Emits(ln)
    THEN <<"json">> \o (IF cfg.csv THEN <<"csv">> ELSE <<>>)
                    \o (IF Posting THEN <<"enqueue">> ELSE <<>>)
    ELSE <<>>

\* process_line(ln) for the line just read, up to the return of process_line or the
\* point where its flush blocks in the HTTP call
ReadLine(ln, max) ==
    /\ pc = "read"
    /\ counts.lines < max
    /\ LET st2 == StateAfter(state, ln, now)
           c2 == CountsAfter(counts, ln)
           snap == Snapshot(st2[parse_rnti(ln.rnti)], now, c2.snapshots)
           buf2 == IF Emits(ln) THEN Enqueue(buffer, snap) ELSE buffer
       IN  /\ state' = st2
           /\ counts' = c2
           /\ out_json' = IF Emits(ln) THEN Append(out_json, snap) ELSE out_json
           /\ out_csv' = IF Emits(ln) /\ cfg.csv THEN out_csv \o CsvRows(snap) ELSE out_csv
           /\ IF FlushInLine(ln)
              THEN /\ maybe_post_flush(buf2, FALSE, "loop_flush")
                   /\ last' = Step("line", Some(ln), EmitFx(ln), Seen(buf2, FALSE))
              ELSE /\ buffer' = buf2
                   /\ call' = None
                   /\ pc' = "loop_flush"
                   /\ sinks_open' = sinks_open
                   /\ last' = Step("line", Some(ln), EmitFx(ln), None)
    /\ UNCHANGED <<cfg, last_post_ms, now, delivered, failed, idles>>

\* the _maybe_post_flush of the reader loop after process_line has returned
LoopFlush ==
    /\ pc = "loop_flush"
    /\ maybe_post_flush(buffer, FALSE, "read")
    /\ last' = Step("loop_flush", None, <<>>, Seen(buffer, FALSE))
    /\ UNCHANGED <<cfg, state, counts, last_post_ms, now, out_json, out_csv, delivered, failed, idles>>

\* readline() returns nothing while following: flush if due, sleep, poll again
IdlePoll ==
    /\ pc = "read"
    /\ cfg.follow
    /\ idles < MaxIdle
    /\ maybe_post_flush(buffer, FALSE, "read")
    /\ idles' = idles + 1
    /\ last' = Step("idle", None, <<>>, Seen(buffer, FALSE))
    /\ UNCHANGED <<cfg, state, counts, last_post_ms, now, out_json, out_csv, delivered, failed>>

\* the finally block: the forced flush, then the sinks are closed
FinalFlush(name) ==
    /\ maybe_post_flush(buffer, TRUE, "close")
    /\ last' = Step(name, None, <<>>, Seen(buffer, TRUE))
    /\ UNCHANGED <<cfg, state, counts, last_post_ms, now, out_json, out_csv, delivered, failed, idles>>

\* readline() returns nothing in run-once mode: break, then the finally block
EndOfInput ==
    /\ pc = "read"
    /\ ~cfg.follow
    /\ FinalFlush("eof")

\* KeyboardInterrupt while the thread waits (readline, sleep, urlopen).  It is not an
\* Exception, so a running _http_post_json and _maybe_post_flush are unwound without
\* their bookkeeping; stream_gnb_log catches it and runs the finally block.  Raised
\* inside the finally block's own flush it leaves stream_gnb_log.
InterruptWaiting ==
    /\ pc \in {"read", "loop_flush"}
    /\ FinalFlush("interrupt")

InterruptPosting ==
    /\ pc = "post"
    /\ call[1].after # "close"
    /\ FinalFlush("interrupt")

InterruptFinalFlush ==
    /\ pc = "post"
    /\ call[1].after = "close"
    /\ pc' = "crashed"
    /\ call' = None
    /\ last' = Step("interrupt", None, <<>>, None)
    /\ UNCHANGED <<cfg, state, counts, buffer, last_post_ms, now, out_json, out_csv,
                   sinks_open, delivered, failed, idles>>

\* urlopen comes back inside _http_post_json
HttpStep(R, horizon) ==
    /\ pc = "post"
    /\ \E r \in R : http_post_json(call[1], r, horizon)
    /\ UNCHANGED <<cfg, state, out_json, out_csv, idles>>

\* time passes
Tick ==
    /\ pc \in {"read", "loop_flush"}
    /\ now < MaxTime
    /\ now' = now + 1
    /\ last' = Step("tick", None, <<>>, None)
    /\ UNCHANGED <<cfg, state, counts, buffer, last_post_ms, pc, call, out_json, out_csv,
                   sinks_open, delivered, failed, idles>>

\* _parse_rnti applied to the text at hand
ParseRnti ==
    /\ last.step = "text"
    /\ last' = [last EXCEPT !.step = "parsed", !.fx = <<parse_rnti(last.line[1])>>]
    /\ UNCHANGED <<cfg, state, counts, buffer, last_post_ms, now, pc, call, out_json, out_csv,
                   sinks_open, delivered, failed, idles>>

\* the pipeline with delivery switched on
Next ==
    \/ \E ln \in DeliveryLines : ReadLine(ln, MaxLines)
    \/ LoopFlush
    \/ IdlePoll
    \/ EndOfInput
    \/ InterruptWaiting
    \/ InterruptPosting
    \/ InterruptFinalFlush
    \/ HttpStep(DeliveryReactions, MaxTime)
    \/ Tick

Spec == Init /\ [][Next]_vars

\* the same with every endpoint reaction but 405, on a short log of emitting lines
NextHttp ==
    \/ \E ln \in EmittingLines : ReadLine(ln, MaxShortRun)
    \/ LoopFlush
    \/ IdlePoll
    \/ EndOfInput
    \/ InterruptWaiting
    \/ InterruptPosting
    \/ InterruptFinalFlush
    \/ HttpStep(HttpReactions, MaxTime)
    \/ Tick

SpecHttp == Init /\ [][NextHttp]_vars

\* retries with back-off against an endpoint that is up or overloaded
NextBackoff ==
    \/ \E ln \in EmittingLines : ReadLine(ln, MaxShortRun)
    \/ LoopFlush
    \/ IdlePoll
    \/ EndOfInput
    \/ InterruptWaiting
    \/ InterruptPosting
    \/ InterruptFinalFlush
    \/ HttpStep(BackoffReactions, MaxSleepTime)
    \/ Tick

SpecBackoff == InitWith(BackoffConfigs) /\ [][NextBackoff]_vars

\* retries with back-off in between redirects and slash toggles
NextRetry ==
    \/ \E ln \in EmittingLines : ReadLine(ln, MaxShortRun)
    \/ LoopFlush
    \/ IdlePoll
    \/ EndOfInput
    \/ InterruptWaiting
    \/ InterruptPosting
    \/ InterruptFinalFlush
    \/ HttpStep(RetryReactions, MaxSleepTime)
    \/ Tick

SpecRetry == InitWith(RetryConfigs) /\ [][NextRetry]_vars

\* the queueing modes in a run that no interrupt cuts short
NextQueue ==
    \/ \E ln \in DeliveryLines : ReadLine(ln, MaxLines)
    \/ LoopFlush
    \/ IdlePoll
    \/ EndOfInput
    \/ HttpStep(DeliveryReactions, MaxTime)
    \/ Tick

SpecQueue == InitWith(QueueConfigs) /\ [][NextQueue]_vars

\* an endpoint that may answer 405; urlopen always comes back (it has a timeout), so
\* the step of the HTTP loop is fair
Next405 ==
    \/ \E ln \in EmittingLines : ReadLine(ln, MaxShortRun)
    \/ LoopFlush
    \/ IdlePoll
    \/ EndOfInput
    \/ InterruptWaiting
    \/ InterruptPosting
    \/ InterruptFinalFlush
    \/ HttpStep(Reactions405, MaxTime)
    \/ Tick

Spec405 ==
    /\ Init /\ [][Next405]_vars
    /\ WF_vars(HttpStep(Reactions405, MaxTime))

\* every shape of line, with and without a delivery URL and a CSV path
NextLines ==
    \/ \E ln \in Lines : ReadLine(ln, MaxShortRun)
    \/ LoopFlush
    \/ IdlePoll
    \/ EndOfInput
    \/ InterruptWaiting
    \/ InterruptPosting
    \/ InterruptFinalFlush
    \/ HttpStep(PlainReactions, MaxTime)
    \/ Tick

SpecLines == InitWith(LinesConfigs) /\ [][NextLines]_vars

\* the UE table under lines with varied field values, delivery switched off
NextDev ==
    \/ \E ln \in DevLines : ReadLine(ln, MaxShortRun)
    \/ LoopFlush
    \/ EndOfInput
    \/ InterruptWaiting
    \/ Tick

SpecDev == InitWith(DevConfigs) /\ [][NextDev]_vars

\* the four-line log, read in order
ReadScenario ==
    /\ counts.lines < Len(Scenario)
    /\ ReadLine(Scenario[counts.lines + 1], Len(Scenario))

NextScenario ==
    \/ ReadScenario
    \/ LoopFlush
    \/ IdlePoll
    \/ EndOfInput
    \/ InterruptWaiting
    \/ InterruptPosting
    \/ InterruptFinalFlush
    \/ HttpStep(PlainReactions, MaxTime)
    \/ Tick

SpecScenario == InitWith(LinesConfigs) /\ [][NextScenario]_vars

\* _parse_rnti on its own, on every identifier text
InitRnti == \E t \in RntiTexts : InitFrom(DevConfigs, Step("text", Some(t), <<>>, None))

NextRnti == ParseRnti

SpecRnti == InitRnti /\ [][NextRnti]_vars

----------------------------------------------------------------------------
(* Properties of the delivery buffer *)

IdSet(ids) == {ids[i] : i \in 1..Len(ids)}
Returned == last.ret # None
Ret == last.ret[1]
Checked == last.chk # None
Chk == last.chk[1]

\* C1: in single-slot-latest mode the buffer holds at most one snapshot, and when it
\* holds one it is the snapshot emitted most recently
C1_SingleSlotLatest ==
    Latest => /\ Len(buffer) <= 1
              /\ buffer # <<>> => /\ buffer[1].id = counts.snapshots
                                  /\ buffer[1] = out_json[Len(out_json)]

\* the third snapshot sits in the slot after the second one was overwritten unsent
C1_Witness ==
    /\ Latest /\ call = None
    /\ Len(buffer) = 1 /\ buffer[1].id = 3
    /\ delivered = <<1>> /\ failed = {}

\* C2: in FIFO mode a failed attempt puts the snapshot back at the head: the buffer is
\* what it was before the flush fired and the same snapshot is the next one popped
C2_FifoReinsert ==
    (Fifo /\ Returned /\ ~Ret.ok) =>
        /\ Ids(buffer) = Ret.before
        /\ Ids(Popped(buffer)) = Ret.ids

C2_Witness == Fifo /\ Returned /\ ~Ret.ok /\ Len(buffer) >= 2

\* C3: a flush check on a non-empty buffer starts a delivery call exactly when it is
\* forced, or nothing was ever sent, or the interval has elapsed since the last
\* successful send; on an empty buffer it starts none, and a check made outside
\* process_line then leaves buffer, send time and counters as they were
C3_FlushGate ==
    [][ (last'.chk # None) =>
          LET seen == last'.chk[1] IN
          /\ seen.buf # <<>> =>
                (pc' = "post" <=> (seen.force \/ last_post_ms = 0
                                   \/ now - last_post_ms >= SEND_INTERVAL))
          /\ seen.buf = <<>> =>
                /\ pc' # "post" /\ call' = None
                /\ buffer' = <<>> /\ last_post_ms' = last_post_ms
                /\ counts'.posted_batches = counts.posted_batches
                /\ counts'.posted_snapshots = counts.posted_snapshots
                /\ counts'.post_errors = counts.post_errors
                /\ (last'.step # "line" => counts' = counts /\ buffer' = buffer) ]_vars

\* an unforced check fired because the interval had elapsed since an earlier send
C3_Witness ==
    /\ Checked /\ ~Chk.force /\ Chk.buf # <<>>
    /\ last_post_ms > 0 /\ pc = "post"

\* C4: in one-at-a-time mode a firing flush takes exactly one snapshot out of the
\* buffer (the head in FIFO mode, the slot in latest mode) and posts it as a single
\* object; after a success the send time is the flush's clock reading and the
\* snapshot is neither buffered nor posted again
C4_OneAtATime ==
    OneAtATime =>
      /\ pc = "post" =>
            LET c == call[1] IN
            /\ Len(c.payload) = 1 /\ ~c.as_array
            /\ Len(c.before) = Len(buffer) + 1
            /\ IF Fifo THEN c.before = Ids(c.payload) \o Ids(buffer)
                       ELSE c.before = Ids(buffer) \o Ids(c.payload)
            /\ c.payload[1].id \notin IdSet(delivered)
      /\ (Returned /\ Ret.ok) =>
            /\ last_post_ms = Ret.now_ms
            /\ Len(Ret.ids) = 1
      /\ IdSet(delivered) \cap IdSet(Ids(buffer)) = {}
      /\ Cardinality(IdSet(delivered)) = Len(delivered)
      /\ counts.posted_snapshots = Len(delivered)
      /\ counts.posted_batches = Len(delivered)

\* the second successful single-snapshot delivery of a run
C4_Witness == OneAtATime /\ Returned /\ Ret.ok /\ Len(delivered) = 2

\* C5: in single-slot-latest mode a failed attempt leaves the buffer empty, and every
\* later attempt carries a snapshot emitted after the failed one
C5_LatestDropsFailed ==
    Latest =>
      /\ (Returned /\ ~Ret.ok) => buffer = <<>>
      /\ failed \cap IdSet(Ids(buffer)) = {}
      /\ pc = "post" => /\ call[1].payload[1].id \notin failed
                        /\ \A f \in failed : call[1].payload[1].id > f
                        /\ call[1].payload[1].id = counts.snapshots

\* after a failure a newer snapshot is being posted
C5_Witness == Latest /\ pc = "post" /\ failed # {}

BatchBacklog ==
    [i \in 1..(counts.snapshots - Len(delivered)) |-> Len(delivered) + i]

\* C6: in batch mode a firing flush posts the whole buffer as one array in emission
\* order; a success empties the buffer and records the send time; a failure leaves
\* buffer and send time alone, and later snapshots queue up behind the retained ones
C6_Batch ==
    Batch =>
      /\ pc = "post" => /\ call[1].as_array
                        /\ Ids(call[1].payload) = call[1].before
                        /\ Ids(buffer) = call[1].before
      /\ (Returned /\ Ret.ok) => /\ buffer = <<>>
                                 /\ last_post_ms = Ret.now_ms
                                 /\ Ret.ids = Ret.before
      /\ (Returned /\ ~Ret.ok) => /\ Ids(buffer) = Ret.before
                                  /\ last_post_ms = Ret.sent_before
      /\ Ids(buffer) = BatchBacklog

\* an array of two snapshots is delivered after an earlier batch attempt had failed
C6_Witness == Batch /\ Returned /\ Ret.ok /\ Len(Ret.ids) >= 2 /\ failed # {}

PermanentFailure == Returned /\ ~Ret.ok /\ Ret.why \in PermanentWhy

\* C7 as claimed: after a permanent failure the attempted snapshots are gone from the
\* buffer in every mode
C7_DroppedInEveryMode ==
    PermanentFailure => IdSet(Ret.ids) \cap IdSet(Ids(buffer)) = {}

\* C7, amended: after a permanent failure the attempted snapshot is gone only in
\* single-slot-latest mode (and never posted again); in FIFO mode it is back at the
\* head and in batch mode the buffer is untouched; in every mode the error counter
\* is one higher, nothing else is counted, and the thread goes on where it was
C7_PermanentFailure ==
    /\ PermanentFailure =>
         /\ Latest => buffer = <<>>
         /\ ~Latest => Ids(buffer) = Ret.before
         /\ Fifo => Head(buffer).id = Ret.ids[1]
         /\ counts = [Ret.counts_before EXCEPT !.post_errors = @ + 1]
         /\ IF Ret.forced THEN pc = "closed" ELSE pc \in {"read", "loop_flush"}
    /\ (Latest /\ pc = "post") => call[1].payload[1].id \notin failed

\* the redirect cap is exceeded in FIFO mode with a second snapshot waiting behind
\* the failed one
C7_Witness ==
    /\ Fifo /\ PermanentFailure /\ Ret.why = "too_many_redirects"
    /\ Len(buffer) >= 2 /\ pc = "loop_flush"

----------------------------------------------------------------------------
(* Properties of emission *)

LineDone == last.step = "line"
TheLine == last.line[1]

\* C8: a line emits exactly when it is an uplink byte-counter report or an LCID marker
\* (so the snapshots are as many as those lines), the snapshot shows that line's device
\* as it is after the line, it is written to the JSON sink, then to the CSV sink when
\* one is configured, and only then enqueued, which happens exactly when a delivery
\* URL is configured; without a URL the buffer stays empty and no request is made
C8_Emission ==
    /\ counts.snapshots = counts.ul_bytes + counts.lcid
    /\ Len(out_json) = counts.snapshots
    /\ Len(out_csv) = IF cfg.csv THEN counts.snapshots ELSE 0
    /\ LineDone =>
          LET ln == TheLine
              emitting == ln.lead = "text" /\ ln.kind \in {"ul_bytes", "lcid"}
          IN  /\ (last.fx # <<>>) <=> emitting
              /\ emitting =>
                    LET snap == out_json[Len(out_json)]
                        n == Len(last.fx)
                    IN  /\ snap.id = counts.snapshots
                        /\ Len(snap.ues) = 1
                        /\ snap.ues[1].rnti = parse_rnti(ln.rnti)
                        /\ snap = Snapshot(state[parse_rnti(ln.rnti)], now, counts.snapshots)
                        /\ last.fx[1] = "json"
                        /\ cfg.csv <=> (n >= 2 /\ last.fx[2] = "csv")
                        /\ cfg.csv => out_csv[Len(out_csv)] = CsvRow(snap, snap.ues[1])
                        /\ Posting <=> last.fx[n] = "enqueue"
                        /\ \A i \in 1..n : last.fx[i] = "enqueue" => i = n
                        /\ Posting => /\ Checked
                                      /\ Chk.buf[Len(Chk.buf)] = snap.id
    /\ ~Posting => /\ buffer = <<>> /\ call = None /\ pc # "post"
                   /\ delivered = <<>> /\ failed = {}
                   /\ counts.posted_batches = 0 /\ counts.post_errors = 0

\* the second emission of a run, for an LCID marker, with both sinks and a URL
C8_Witness ==
    /\ LineDone /\ TheLine.kind = "lcid" /\ TheLine.lead = "text"
    /\ Posting /\ cfg.csv /\ counts.snapshots = 2
    /\ last.fx = <<"json", "csv", "enqueue">>

----------------------------------------------------------------------------
(* Properties of the UE table *)

TopFields == {"rnti", "pci", "sync", "phr", "pcmax", "rsrp", "ssb_sinr"}

\* a field is <<"top", name>> or <<direction, name>>
AllFields ==
    { <<"top", f>> : f \in TopFields }
    \cup { <<"dl", f>> : f \in DOMAIN init_ue(0).dl }
    \cup { <<"ul", f>> : f \in DOMAIN init_ue(0).ul }

FieldOf(ue, pf) == IF pf[1] = "top" THEN ue[pf[2]] ELSE ue[pf[1]][pf[2]]

\* the fields whose value the line itself carries
CarriedFields(ln) ==
    CASE ln.kind = "header" ->
            { <<"top", f>> : f \in { g \in {"phr", "pcmax", "rsrp"} : ln[g] # None } }
            \cup (IF ln.sinsb # None THEN { <<"top", "ssb_sinr">> } ELSE {})
      [] ln.kind = "cqi" -> { <<"dl", "cqi">>, <<"dl", "ri">> }
      [] ln.kind = "dlsch" -> { <<"dl", f>> : f \in {"a", "errors", "mcs"} }
      [] ln.kind = "ulsch" ->
            { <<"ul", f>> : f \in {"a", "errors", "mcs"} }
            \cup (IF ln.snr # None THEN { <<"ul", "snr">> } ELSE {})
      [] ln.kind = "dl_bytes" -> { <<"dl", "total_bytes">> }
      [] ln.kind = "ul_bytes" -> { <<"ul", "total_bytes_rx">> }
      [] OTHER -> {}

\* the derived packet statistics of a schedule report's direction
DerivedFields(ln) ==
    CASE ln.kind = "dlsch" -> { <<"dl", f>> : f \in {"packets_ok", "packets_nok", "drop_rate"} }
      [] ln.kind = "ulsch" -> { <<"ul", f>> : f \in {"packets_ok", "packets_nok", "drop_rate"} }
      [] OTHER -> {}

\* the bitrate and last-sample bookkeeping of a byte-counter report's direction
SampleFields(ln) ==
    CASE ln.kind = "dl_bytes" ->
            { <<"dl", "bitrate">>, <<"dl", "last_total_bytes">>, <<"dl", "last_t_ms">> }
      [] ln.kind = "ul_bytes" ->
            { <<"ul", "bitrate">>, <<"ul", "last_total_bytes_rx">>, <<"ul", "last_t_ms">> }
      [] OTHER -> {}

\* table st2 differs from st at most in the fields `allowed` of the line's device (a
\* device seen for the first time counts as holding its initial record before)
Frame(st, st2, ln, allowed) ==
    IF ln.lead = "text" /\ ln.kind \in ClassifiedKinds
    THEN LET r == parse_rnti(ln.rnti)
             prior == IF r \in DOMAIN st THEN st[r] ELSE init_ue(r)
         IN  /\ DOMAIN st2 = DOMAIN st \cup {r}
             /\ \A d \in DOMAIN st : d # r => st2[d] = st[d]
             /\ \A pf \in AllFields \ allowed : FieldOf(st2[r], pf) = FieldOf(prior, pf)
    ELSE st2 = st

\* C9 as claimed: a line changes only the fields it carries and, for a schedule
\* report, the derived packet statistics of its direction
C9_OnlyCarriedAndDerived ==
    [][ last'.step = "line" =>
          Frame(state, state', last'.line[1],
                CarriedFields(last'.line[1]) \cup DerivedFields(last'.line[1])) ]_vars

\* C9, amended: a line changes only the fields it carries, for a schedule report the
\* derived packet statistics of its direction, and for a byte-counter report the
\* bitrate, last-sample total and last-sample time of its direction; every other
\* field of the device and every other device keep their value (an absent RSRP or SNR
\* capture leaves its field alone), and no step other than a line touches the table
C9_FrameEffect ==
    [][ IF last'.step = "line"
        THEN Frame(state, state', last'.line[1],
                   CarriedFields(last'.line[1]) \cup DerivedFields(last'.line[1])
                   \cup SampleFields(last'.line[1]))
        ELSE state' = state ]_vars

\* a header without RSRP has been applied to a device whose RSRP was set before
C9_Witness ==
    /\ LineDone /\ TheLine.lead = "text" /\ TheLine.kind = "header"
    /\ TheLine.rsrp = None
    /\ state[parse_rnti(TheLine.rnti)].rsrp = Some(-80)

\* direction record `side` shows exactly the report (a, e)
ShowsReport(side, a, e) ==
    /\ side.a = a /\ side.errors = e
    /\ side.packets_nok = e
    /\ side.packets_ok = (IF a - e > 0 THEN a - e ELSE 0)
    /\ IF a > 0 THEN /\ side.drop_rate[2] > 0
                     /\ side.drop_rate[1] * a = e * 100 * side.drop_rate[2]
                ELSE side.drop_rate = <<0, 1>>
    /\ e <= a => side.packets_ok + side.packets_nok = a

PktFields == {"a", "errors", "packets_ok", "packets_nok", "drop_rate"}

\* one step keeps direction dir of device d on the most recent report: a report for it
\* is shown as it is, anything else leaves the five values alone, a new device shows
\* the all-zero record
FollowsReports(st, st2, stepped, d, dir, kind) ==
    IF /\ stepped.step = "line"
       /\ stepped.line[1].lead = "text" /\ stepped.line[1].kind = kind
       /\ parse_rnti(stepped.line[1].rnti) = d
    THEN ShowsReport(st2[d][dir], stepped.line[1].a[1], stepped.line[1].errors[1])
    ELSE IF d \in DOMAIN st
    THEN \A f \in PktFields : st2[d][dir][f] = st[d][dir][f]
    ELSE ShowsReport(st2[d][dir], 0, 0)

\* C10: at all times the derived packet statistics of every device and direction are
\* those of the stored scheduled/error counters (nok = errors, ok = max(0, scheduled -
\* errors), drop_rate = errors/scheduled*100 or 0 when nothing was scheduled, ok + nok =
\* scheduled when errors <= scheduled), and every step leaves them on the most recent
\* schedule report of that device and direction, whatever was reported before
C10_DerivedPacketStats ==
    /\ [](\A d \in DOMAIN state :
            /\ ShowsReport(state[d].dl, state[d].dl.a, state[d].dl.errors)
            /\ ShowsReport(state[d].ul, state[d].ul.a, state[d].ul.errors))
    /\ [][ \A d \in DOMAIN state' :
              /\ FollowsReports(state, state', last', d, "dl", "dlsch")
              /\ FollowsReports(state, state', last', d, "ul", "ulsch") ]_vars

\* a second downlink report for the same device, with more errors than scheduled
C10_Witness ==
    /\ LineDone /\ TheLine.lead = "text" /\ TheLine.kind = "dlsch"
    /\ TheLine.a = Some(3) /\ TheLine.errors = Some(7)
    /\ counts.dlsch = 2 /\ Cardinality(DOMAIN state) = 1
    /\ state[parse_rnti(TheLine.rnti)].dl.packets_ok = 0

Touched(ln) == CarriedFields(ln) \cup DerivedFields(ln) \cup SampleFields(ln)

ClassifiedCount ==
    counts.header + counts.cqi + counts.dlsch + counts.ulsch
    + counts.dl_bytes + counts.ul_bytes + counts.lcid

\* C11: the table is keyed by device id with one record per id, it is empty until a
\* classified line has been processed, a classified line adds its device if it is not
\* there (every field the line does not set being the default) and otherwise keeps
\* the record it finds (no field the line does not set changes), and no step takes a
\* device out or adds one for anything but a classified line
C11_DeviceTable ==
    /\ [](/\ \A d \in DOMAIN state : state[d].rnti = d
          /\ (DOMAIN state = {}) <=> (ClassifiedCount = 0)
          /\ Cardinality(DOMAIN state) <= ClassifiedCount)
    /\ [][ /\ DOMAIN state \subseteq DOMAIN state'
           /\ IF /\ last'.step = "line" /\ last'.line[1].lead = "text"
                 /\ last'.line[1].kind \in ClassifiedKinds
              THEN \E ln \in {last'.line[1]} :
                   \E r \in {parse_rnti(ln.rnti)} :
                   \E found \in {IF r \in DOMAIN state THEN state[r] ELSE init_ue(r)} :
                       /\ DOMAIN state' = DOMAIN state \cup {r}
                       /\ \A pf \in AllFields \ Touched(ln) :
                             FieldOf(state'[r], pf) = FieldOf(found, pf)
              ELSE DOMAIN state' = DOMAIN state ]_vars

\* a second line for a device finds the RSRP its first line had set
C11_Witness ==
    /\ LineDone /\ counts.lines = 2 /\ ClassifiedCount = 2
    /\ TheLine.kind = "cqi" /\ Cardinality(DOMAIN state) = 1
    /\ state[parse_rnti(TheLine.rnti)].rsrp = Some(-80)
    /\ state[parse_rnti(TheLine.rnti)].dl.cqi = Some(7)

----------------------------------------------------------------------------
(* Properties of identifier parsing *)

CharValue ==
    ("0" :> 0) @@ ("1" :> 1) @@ ("2" :> 2) @@ ("3" :> 3) @@ ("4" :> 4) @@ ("5" :> 5)
    @@ ("6" :> 6) @@ ("7" :> 7) @@ ("8" :> 8) @@ ("9" :> 9)
    @@ ("a" :> 10) @@ ("b" :> 11) @@ ("c" :> 12) @@ ("d" :> 13) @@ ("e" :> 14) @@ ("f" :> 15)
    @@ ("A" :> 10) @@ ("B" :> 11) @@ ("C" :> 12) @@ ("D" :> 13) @@ ("E" :> 14) @@ ("F" :> 15)

\* the number a digit text denotes in a base, read from the left
RECURSIVE Denotes(_, _, _)
Denotes(s, base, acc) ==
    IF s = <<>> THEN acc ELSE Denotes(Tail(s), base, acc * base + CharValue[Head(s)])

\* the text without its marker
Unmarked(t) ==
    IF Len(t) >= 2 /\ t[1] = "0" /\ t[2] \in {"x", "X"} THEN SubSeq(t, 3, Len(t)) ELSE t

Parsed == last.step = "parsed"

\* C12: a text of hex digits with an optional 0x marker parses to the base-10 value of
\* what follows the marker when that is all decimal digits, to its base-16 value when
\* it holds a letter, and to the same id with and without the marker
C12_ParseRnti ==
    Parsed =>
      LET b == Unmarked(last.line[1])
          v == last.fx[1]
      IN  /\ (\A i \in 1..Len(b) : CharValue[b[i]] < 10) => v = Denotes(b, 10, 0)
          /\ (\E i \in 1..Len(b) : CharValue[b[i]] >= 10) => v = Denotes(b, 16, 0)
          /\ v = parse_rnti(b)

\* "0X64" has been parsed, to 64
C12_Witness ==
    Parsed /\ last.line[1] = <<"0", "X", "6", "4">> /\ last.fx = <<64>>

----------------------------------------------------------------------------
(* The four-line scenario *)

ScenarioRead == counts.lines = Len(Scenario)

\* C13 as claimed: after the four lines the emitted snapshot shows device id 100
C13_ShowsRnti100 ==
    ScenarioRead => /\ out_json # <<>>
                    /\ out_json[1].ues[1].rnti = 100

\* C13, amended: after the four lines the emitted snapshot shows device id 64, the
\* base-10 value of the all-digit text "64"
C13_ShowsRnti64 ==
    ScenarioRead => /\ out_json # <<>>
                    /\ \A i \in 1..Len(out_json) :
                          \A j \in 1..Len(out_json[i].ues) : out_json[i].ues[j].rnti = 64
                    /\ DOMAIN state = {64}

\* the fourth line has just been processed and its snapshot written for device 64
C13_Witness ==
    /\ ScenarioRead /\ LineDone
    /\ out_json[1].ues[1].rnti = 64

\* C14: no snapshot is emitted by the first three lines, exactly one is emitted by the
\* fourth, and its downlink record has cqi 10, ri 2, mcs 10, packets_ok 95,
\* packets_nok 5 and drop_rate 5
C14_ScenarioSnapshot ==
    /\ ~ScenarioRead => /\ out_json = <<>> /\ counts.snapshots = 0
                        /\ (LineDone => last.fx = <<>>)
    /\ ScenarioRead =>
          /\ Len(out_json) = 1 /\ counts.snapshots = 1
          /\ Len(out_json[1].ues) = 1
          /\ LET d == out_json[1].ues[1].downlink
             IN  /\ d.cqi = 10 /\ d.ri = 2 /\ d.mcs = 10
                 /\ d.packets_ok = 95 /\ d.packets_nok = 5
                 /\ d.drop_rate = <<5, 1>>
          /\ LineDone => /\ last.fx # <<>>
                         /\ TheLine = Scenario[4]

\* the run is over, without a delivery URL, with the one snapshot in the JSON sink
C14_Witness ==
    /\ ScenarioRead /\ pc = "closed" /\ ~Posting
    /\ Len(out_json) = 1 /\ out_json[1].ues[1].downlink.packets_ok = 95

----------------------------------------------------------------------------
(* Properties of the HTTP client *)

SleepCodes == [i \in 1..Len(Ret.slept) |-> Ret.slept[i].code]
SleepDelays == [i \in 1..Len(Ret.slept) |-> Ret.slept[i].delay]

\* 503, 503, 200: a successful call that slept twice, after a 503 each time, and met
\* no redirect and no 405
Got503Twice ==
    /\ Returned /\ Ret.ok
    /\ SleepCodes = <<503, 503>>
    /\ Ret.redirects = 0 /\ Ret.toggles = 0 /\ Ret.gets = 0

\* C15: a call answered 503, 503, 200 succeeds after exactly three POST requests,
\* having slept the base delay and then twice the base delay; its flush counts one
\* delivery of the attempted snapshots and no error, records the send time, and the
\* snapshots are out of the buffer
C15_BackoffThenSuccess ==
    Got503Twice =>
      /\ Ret.posts = 3
      /\ SleepDelays = <<BACKOFF_BASE, 2 * BACKOFF_BASE>>
      /\ now = Ret.now_ms + 3 * BACKOFF_BASE
      /\ counts = [Ret.counts_before EXCEPT !.posted_batches = @ + 1,
                                            !.posted_snapshots = @ + Len(Ret.ids)]
      /\ OneAtATime => Len(Ret.ids) = 1
      /\ last_post_ms = Ret.now_ms
      /\ IdSet(Ret.ids) \cap IdSet(Ids(buffer)) = {}
      /\ IdSet(Ret.ids) \subseteq IdSet(delivered)

\* such a call has just returned in FIFO mode
C15_Witness == Got503Twice /\ Fifo /\ Ret.posts = 3 /\ delivered = <<1>>

\* C16 as claimed: every request of a delivery call is a POST (a redirect is never
\* followed with a GET), a call succeeds only on a 2xx answer to such a POST, at most
\* max_redirects redirects are followed, and a redirect beyond the cap or without
\* Location ends the call in failure with no further request
C16_RedirectsKeepPost ==
    /\ pc = "post" => call[1].redirects <= max_redirects
    /\ Returned =>
          /\ Ret.gets = 0
          /\ Ret.posts = Len(Ret.slept) + Min(Ret.redirects, max_redirects) + 1
          /\ Ret.why = "too_many_redirects" => (~Ret.ok /\ Ret.redirects = max_redirects + 1)
          /\ Ret.why = "redirect_no_location" => ~Ret.ok

\* C17 as claimed: within one call at most one retry is made because of a 405, and it
\* goes to the URL with its trailing slash toggled
C17_ToggleOnce ==
    /\ pc = "post" =>
          /\ call[1].toggles <= 1
          /\ call[1].toggles = 1 => call[1].current_url = ToggleSlash(cfg.post_url[1])
    /\ Returned => Ret.toggles <= 1

\* C18 as claimed: every delivery call comes to an end
C18_CallTerminates == (pc = "post") ~> (pc # "post")

----------------------------------------------------------------------------
(* Properties of the reader loop *)

\* the forced flush check of the finally block has been made
Stopping == pc \in {"closed", "crashed"} \/ (pc = "post" /\ call[1].after = "close")

\* C19: the reader's stop (end of input in run-once mode, or an interrupt) makes one
\* forced flush check and none is made after it; the check starts a delivery call
\* exactly when a URL is configured and the buffer is not empty, whatever the time
\* since the last send; once the check is made no new call starts, so in FIFO mode
\* only the head is attempted and the rest stays in the buffer unsent; the sinks are
\* closed exactly when that flush has returned, and nothing happens afterwards
C19_FinalFlush ==
    /\ [](/\ ~sinks_open <=> pc = "closed"
          /\ (pc = "closed" /\ Returned) =>
                /\ Ret.forced
                /\ Fifo => /\ Ret.ids = <<Ret.before[1]>>
                           /\ Ids(buffer) = IF Ret.ok THEN Tail(Ret.before) ELSE Ret.before)
    /\ [][ /\ pc \notin {"closed", "crashed"}
           /\ (last'.step \in {"eof", "interrupt"} /\ ~Stopping) =>
                 /\ last'.chk # None /\ last'.chk[1].force
           /\ (last'.chk # None /\ last'.chk[1].force) =>
                 /\ ~Stopping
                 /\ last'.chk[1].buf = Ids(buffer)
                 /\ pc' = "post" <=> (Posting /\ buffer # <<>>)
                 /\ pc' = "post" => /\ call'[1].after = "close"
                                    /\ call'[1].before = Ids(buffer)
                 /\ pc' # "post" => pc' = "closed"
           /\ Stopping =>
                 /\ pc' \in {"closed", "crashed"} \/ (pc' = "post" /\ call'[1].after = "close")
                 /\ last'.chk = None
                 /\ pc' = "post" => /\ call'[1].payload = call[1].payload
                                    /\ call'[1].before = call[1].before
                 /\ IdSet(delivered') \subseteq IdSet(delivered) \cup IdSet(Ids(call[1].payload))
         ]_vars

\* the run has ended in FIFO mode: the forced flush delivered the head although the
\* interval since the last send had not elapsed, and a snapshot is left unsent
C19_Witness ==
    /\ pc = "closed" /\ Fifo /\ Returned /\ Ret.forced /\ Ret.ok
    /\ Ret.sent_before > 0 /\ Ret.now_ms - Ret.sent_before < SEND_INTERVAL
    /\ Len(Ret.before) > 1 /\ buffer # <<>>

\* C20: a line that starts with "[" changes no UE record and writes no snapshot,
\* whatever the rest of it would match, and process_line still makes a flush check
\* for it; a line that matches nothing changes no UE record, adds no device and writes
\* no snapshot, and although process_line makes no flush check for it the reader
\* does not get back to reading before the loop's own flush check
C20_BracketAndUnmatched ==
    [][ /\ last'.step = "line" =>
             LET ln == last'.line[1] IN
             /\ ln.lead = "bracket" =>
                   /\ state' = state
                   /\ out_json' = out_json /\ out_csv' = out_csv
                   /\ counts' = [counts EXCEPT !.lines = @ + 1]
                   /\ last'.fx = <<>>
                   /\ last'.chk # None /\ ~last'.chk[1].force
                   /\ last'.chk[1].buf = Ids(buffer)
                   /\ pc' \in {"post", "loop_flush"}
             /\ (ln.lead = "text" /\ ln.kind = "unmatched") =>
                   /\ state' = state
                   /\ out_json' = out_json /\ out_csv' = out_csv
                   /\ counts' = [counts EXCEPT !.lines = @ + 1]
                   /\ last'.fx = <<>>
                   /\ buffer' = buffer
                   /\ last'.chk = None
                   /\ pc' = "loop_flush"
        /\ (pc = "loop_flush" /\ pc' # "loop_flush" /\ last'.step # "interrupt") =>
             /\ last'.step = "loop_flush"
             /\ last'.chk # None /\ ~last'.chk[1].force
             /\ last'.chk[1].buf = Ids(buffer)
      ]_vars

\* the flush check made for a bracketed line (one that would match the uplink
\* byte-counter pattern) has started a delivery of the snapshot buffered before
C20_Witness ==
    /\ LineDone /\ TheLine.lead = "bracket" /\ TheLine.kind = "ul_bytes"
    /\ pc = "post" /\ counts.snapshots = 1 /\ counts.lines = 2

----------------------------------------------------------------------------
(* Properties of the snapshot built from a UE record *)

\* the snapshot of the line just processed, and the UE record it was built from
TheSnapshot == out_json[Len(out_json)]
TheUe == state[parse_rnti(TheLine.rnti)]

\* every numeric field of a snapshot entry but the device id
NumericValues(u) ==
    { u.pci, u.downlink.cqi, u.downlink.ri, u.downlink.mcs, u.downlink.bitrate,
      u.downlink.packets_ok, u.downlink.packets_nok, u.downlink.drop_rate[1],
      u.downlink.buffer_status,
      u.uplink.pusch_sinr, u.uplink.rsrp, u.uplink.ri, u.uplink.mcs, u.uplink.bitrate,
      u.uplink.packets_ok, u.uplink.packets_nok, u.uplink.drop_rate[1], u.uplink.bsr,
      u.uplink.timing_advance, u.uplink.phr }

\* the value a snapshot is to show for an optional field of the record
Shown(opt) == IF opt # None THEN opt[1] ELSE 0

\* C21: the snapshot emitted for a line shows, for the line's device, the record's
\* value of every field that has one and zero for every field that has none; and when
\* the line is an LCID line and the first classified line of the run, every numeric
\* field of the snapshot but the device id is zero, both bitrates included
C21_SnapshotOfState ==
    (LineDone /\ Emits(TheLine)) =>
        LET u == TheSnapshot.ues[1] IN
        /\ Len(TheSnapshot.ues) = 1
        /\ u.rnti = TheUe.rnti /\ u.pci = TheUe.pci
        /\ u.downlink.cqi = Shown(TheUe.dl.cqi)
        /\ u.downlink.ri = Shown(TheUe.dl.ri)
        /\ u.downlink.mcs = Shown(TheUe.dl.mcs)
        /\ u.uplink.pusch_sinr = Shown(TheUe.ul.snr)
        /\ u.uplink.rsrp = Shown(TheUe.rsrp)
        /\ u.uplink.ri = Shown(TheUe.ul.ri)
        /\ u.uplink.mcs = Shown(TheUe.ul.mcs)
        /\ u.uplink.phr = Shown(TheUe.phr)
        /\ u.downlink.packets_ok = TheUe.dl.packets_ok
        /\ u.downlink.packets_nok = TheUe.dl.packets_nok
        /\ u.downlink.drop_rate = TheUe.dl.drop_rate
        /\ u.uplink.packets_ok = TheUe.ul.packets_ok
        /\ u.uplink.packets_nok = TheUe.ul.packets_nok
        /\ u.uplink.drop_rate = TheUe.ul.drop_rate
        /\ (TheUe.dl.last_t_ms # None) => u.downlink.bitrate = TheUe.dl.bitrate
        /\ (TheUe.ul.last_t_ms # None) => u.uplink.bitrate = TheUe.ul.bitrate
        /\ (TheLine.kind = "lcid" /\ ClassifiedCount = 1) => NumericValues(u) = {0}

----------------------------------------------------------------------------
(* Properties of retrying after a failed delivery *)

\* C22: in FIFO mode, when a delivery call that was not forced has just failed, the
\* next call that is not forced starts no sooner than a send interval after the failed
\* call was started
C22_RetryAtNextInterval ==
    [][ ( /\ Fifo /\ Returned /\ ~Ret.ok /\ ~Ret.forced
          /\ pc' = "post" /\ call'[1].after # "close" )
        => call'[1].now_ms - Ret.now_ms >= SEND_INTERVAL ]_vars

\* the sleep before the k-th retry of a call
Backoff(k) == BACKOFF_BASE * 2^(k - 1)

\* the sleeps of a call so far: one per retry, each after a transient status code or a
\* transport error (code 0), the k-th of length Backoff(k)
BackoffSchedule(slept) ==
    /\ Len(slept) <= cfg.retries
    /\ \A k \in 1..Len(slept) :
          /\ slept[k].delay = Backoff(k)
          /\ slept[k].code \in TRANSIENT \cup {0}

\* C23: a delivery call retries after a transient status code or a transport error at
\* most max_retries times, sleeping base * 2^(k-1) before its k-th retry (a step of
\* the call that counts a retry lets that much time pass and leaves URL and redirect
\* count alone); a call that gives up on such a failure has made exactly max_retries
\* retries and does not sleep again; a step that follows a redirect or toggles the
\* slash counts no retry and lets no time pass, so the time a call takes is the sum
\* of its sleeps
C23_RetriesAndBackoff ==
    /\ [](pc = "post" =>
            /\ call[1].attempt = Len(call[1].slept)
            /\ call[1].delay = Backoff(call[1].attempt + 1)
            /\ BackoffSchedule(call[1].slept))
    /\ [](Returned =>
            /\ BackoffSchedule(Ret.slept)
            /\ now = Ret.now_ms + BACKOFF_BASE * (2^Len(Ret.slept) - 1)
            /\ Ret.why \in {"transient_exhausted", "urlerror_exhausted"} =>
                  (~Ret.ok /\ Len(Ret.slept) = cfg.retries))
    /\ [][ (pc = "post" /\ last'.step = "http") =>
             IF last'.ret = None
             THEN \/ /\ call'[1].attempt = call[1].attempt + 1
                     /\ now' = now + Backoff(call'[1].attempt)
                     /\ call'[1].redirects = call[1].redirects
                     /\ call'[1].current_url = call[1].current_url
                  \/ /\ call'[1].attempt = call[1].attempt
                     /\ call'[1].slept = call[1].slept
                     /\ call'[1].delay = call[1].delay
                     /\ now' = now
                     /\ \/ call'[1].redirects = call[1].redirects + 1
                        \/ call'[1].current_url = ToggleSlash(call[1].current_url)
             ELSE now' = now /\ last'.ret[1].slept = call[1].slept
       ]_vars

\* a call with --retries 2 that was redirected once, had its slash toggled once, slept
\* after a transport error and after a 503, and gave up on the next 503
C23_Witness ==
    /\ Returned /\ ~Ret.ok /\ Ret.why = "transient_exhausted"
    /\ cfg.retries = 2 /\ SleepCodes = <<0, 503>>
    /\ Ret.redirects = 1 /\ Ret.toggles = 1 /\ Ret.posts = 5

\* a failure that may be retried: a transient status code or a transport error
TransientFailure(f) ==
    \/ (f.k = "httperror" /\ f.code \in TRANSIENT)
    \/ f.k = "urlerror"

\* C24: a delivery call sleeps and retries only after a transient status code or a
\* transport error; any other answer that is not a success, a followed redirect or a
\* 405, and any other error, ends the call in failure there and then
C24_PermanentFailsAtOnce ==
    /\ pc = "post" => \A i \in 1..Len(call[1].slept) : TransientFailure(call[1].slept[i])
    /\ Returned =>
          /\ \A i \in 1..Len(Ret.slept) : TransientFailure(Ret.slept[i])
          /\ Ret.why \in {"non_2xx", "non_transient", "exception_exhausted"} => ~Ret.ok

----------------------------------------------------------------------------
(* Properties of interruption and of the order of delivery *)

\* the ids of the snapshots a running delivery call has taken
InCall == IF pc = "post" THEN IdSet(Ids(call[1].payload)) ELSE {}

\* C25: a delivery call that has started is not cut short: the next thing that
\* happens is a step of the call itself, up to its return with the flush's
\* bookkeeping; and in FIFO mode every snapshot emitted so far is delivered, in the
\* buffer, or with the running call (none is lost)
C25_AttemptRunsToItsEnd ==
    /\ [](Fifo => 1..counts.snapshots = IdSet(delivered) \cup IdSet(Ids(buffer)) \cup InCall)
    /\ [][pc = "post" => last'.step = "http"]_vars

\* the snapshots a running FIFO call has popped (a batch call leaves them in the buffer)
PoppedByCall == IF pc = "post" /\ Fifo THEN Ids(call[1].payload) ELSE <<>>

\* C26: in FIFO and in batch mode, in a run without interrupt, the snapshots delivered
\* so far, followed by the one a running FIFO call holds, followed by the buffer, are
\* the snapshots emitted so far in the order of emission: none lost, none twice, none
\* out of order, and each delivered only after all earlier ones
C26_InOrderNoLoss ==
    (Fifo \/ Batch) =>
        delivered \o PoppedByCall \o Ids(buffer) = [i \in 1..counts.snapshots |-> i]

\* FIFO mode: the first snapshot failed once and was delivered on retry, the second
\* was delivered an interval later, the third is waiting
C26_Witness ==
    /\ Fifo /\ pc = "read" /\ failed = {1}
    /\ delivered = <<1, 2>> /\ Ids(buffer) = <<3>>

====
